---- MODULE Spec2Model ----
(***************************************************************************)
(* Model of the Telegram appointment bot: bot.py (conversation handlers,   *)
(* parsers, dispatch set up in main) over db.py (telegram_identities and   *)
(* appointments tables in PostgreSQL).                                      *)
(*                                                                         *)
(* A message text is a sequence of one-character strings.  A datetime is   *)
(* the tuple <<Y, m, d, H, M, S>> of its naive fields; every datetime of   *)
(* the program carries the same tzinfo (TZ, bot.py:25), so Python compares *)
(* two of them by these fields.  Python's None is the empty tuple << >>    *)
(* where a datetime or a text is expected and the record None where a row  *)
(* is expected.                                                            *)
(***************************************************************************)
EXTENDS Integers, Sequences, FiniteSets, TLC

VARIABLES
    conv_link,            \* conv_link._conversations: user id -> state
    conv_book,            \* conv_book._conversations: user id -> state
    user_data,            \* context.user_data of every user: set of <<key, value>>
    telegram_identities,  \* rows of table telegram_identities
    appointments,         \* rows of table appointments
    clock,                \* seconds elapsed on the wall clock / database clock
    turn,                 \* the last turn: who sent the update, the reply, raised or not
    parse_text,           \* the argument of a call of _parse_dt on its own
    parsed                \* {} before that call returns, {its result} after

vars == <<conv_link, conv_book, user_data, telegram_identities, appointments, clock, turn,
          parse_text, parsed>>

-----------------------------------------------------------------------------
(* Bounds *)

\* the clock takes the values 0 .. MaxClock seconds after ClockStart
MaxClock == 1

-----------------------------------------------------------------------------
(* Program constants *)

ASK_PASSPORT == 0
ASK_BDATE == 1
ASK_TIME == 2
\* telegram.ext.ConversationHandler.END
END == -1

None == [None |-> TRUE]

\* The four ReplyKeyboard labels.  Each label is one symbol of the alphabet:
\* no parser and no pattern of the program looks inside a label.
BTN_BOOK == <<"BTN_BOOK">>
BTN_MY == <<"BTN_MY">>
BTN_LINK == <<"BTN_LINK">>
BTN_CANCEL == <<"BTN_CANCEL">>

BUTTON_TO_CMD ==
    [t \in {BTN_BOOK, BTN_MY, BTN_LINK, BTN_CANCEL} |->
        IF t = BTN_BOOK THEN "book"
        ELSE IF t = BTN_MY THEN "my"
        ELSE IF t = BTN_LINK THEN "link"
        ELSE "cancel"]

-----------------------------------------------------------------------------
(* The environment: chat users, the patients table, the texts users send *)

\* Telegram user ids of the two chat users that talk to the bot
Users == {101, 102}

\* update.effective_user.username
Username(u) == IF u = 101 THEN "alice" ELSE "bob"

TXT_PASSPORT_7 == <<"1","2","3","4"," ","5","6","7","8","9","0">>
TXT_PASSPORT_8 == <<"4","3","2","1"," ","0","9","8","7","6","5">>
TXT_PASSPORT_BAD == <<"1","2","3","4"," ","5","6","7","8","9">>
TXT_BDATE_DOT == <<"2","5",".","0","2",".","1","9","9","9">>
TXT_BDATE_ISO == <<"1","9","9","9","-","0","2","-","2","5">>
TXT_BDATE_OTHER == <<"0","1",".","0","1",".","2","0","0","0">>
TXT_DT_ISO_HM == <<"2","0","2","6","-","0","2","-","2","5"," ","1","4",":","3","0">>
TXT_DT_ISO_HMS == <<"2","0","2","6","-","0","2","-","2","5"," ","1","4",":","3","0",":","0","0">>
TXT_DT_DOT_HM == <<"2","5",".","0","2",".","2","0","2","6"," ","1","4",":","3","0">>
TXT_DT_LATER == <<"2","0","2","6","-","0","2","-","2","5"," ","1","5",":","0","0">>
TXT_DT_EARLIER == <<"2","0","2","6","-","0","2","-","2","5"," ","1","4",":","2","9">>
TXT_NOT_A_DATE == <<"n","o","t"," ","a"," ","d","a","t","e">>

\* the non-command message texts a user sends (button presses included)
Texts ==
    { BTN_BOOK, BTN_MY, BTN_LINK, BTN_CANCEL,
      TXT_PASSPORT_7, TXT_PASSPORT_8,
      TXT_BDATE_DOT, TXT_BDATE_OTHER,
      TXT_DT_EARLIER, TXT_DT_ISO_HM, TXT_DT_LATER,
      TXT_NOT_A_DATE }

Commands == {"start", "my", "link", "book", "cancel"}

\* an incoming update of one user: a /command or a text message
Updates ==
    [command : Commands] \cup [text : Texts]

(* What each user sends.  User 101 sends every update.  User 102, who linked
   to patient 7 in an earlier session, only books: /book, then a time. *)
UpdatesOf(u) ==
    IF u = 101 THEN Updates
    ELSE { [command |-> "book"], [text |-> TXT_DT_LATER] }

IsCommand(upd, name) == "command" \in DOMAIN upd /\ upd.command = name
IsText(upd) == "text" \in DOMAIN upd

\* table patients of the main project: read, never written
patients ==
    { [id |-> 7, fio |-> "Ivanov I.I.", passport |-> TXT_PASSPORT_7, birth_date |-> TXT_BDATE_ISO],
      [id |-> 8, fio |-> "Petrov P.P.", passport |-> TXT_PASSPORT_8, birth_date |-> TXT_BDATE_ISO] }

\* the wall clock at clock = 0: 2026-02-25 14:29:59 in TZ
ClockStart == <<2026, 2, 25, 14, 29, 59>>

\* datetime.now(TZ) and the database's now(): ClockStart plus clock seconds
\* (the clock stays within the day of ClockStart)
Now ==
    LET sod == ClockStart[4] * 3600 + ClockStart[5] * 60 + ClockStart[6] + clock
    IN  <<ClockStart[1], ClockStart[2], ClockStart[3],
          sod \div 3600, (sod % 3600) \div 60, sod % 60>>

-----------------------------------------------------------------------------
(* Characters and strings *)

\* Body applied to value: a local variable of the code that is assigned once
\* and read several times
With(value, Body(_)) == Body(value)

Digits == <<"0","1","2","3","4","5","6","7","8","9">>

IsDigit(c) == \E i \in 1..10 : Digits[i] = c

DigitVal(c) == (CHOOSE i \in 1..10 : Digits[i] = c) - 1

IsSpace(c) == c = " "

\* int(s) for a string of digits, a leading blank allowed (int(" 5") = 5)
RECURSIVE IntOf(_)
IntOf(s) ==
    IF s = << >> THEN 0
    ELSE IF IsSpace(s[1]) THEN IntOf(Tail(s))
    ELSE IntOf(SubSeq(s, 1, Len(s) - 1)) * 10 + DigitVal(s[Len(s)])

\* str.strip()
RECURSIVE Strip(_)
Strip(s) ==
    IF s = << >> THEN s
    ELSE IF IsSpace(s[1]) THEN Strip(Tail(s))
    ELSE IF IsSpace(s[Len(s)]) THEN Strip(SubSeq(s, 1, Len(s) - 1))
    ELSE s

\* the decimal digits of n, zero-padded to width w (format spec 0wd)
RECURSIVE Pad(_, _)
Pad(n, w) ==
    IF w = 0 THEN << >>
    ELSE Pad(n \div 10, w - 1) \o <<Digits[(n % 10) + 1]>>

\* re.fullmatch(r"\d{4} \d{6}", text)
PassportMatch(text) ==
    /\ Len(text) = 11
    /\ \A i \in 1..4 : IsDigit(text[i])
    /\ text[5] = " "
    /\ \A i \in 6..11 : IsDigit(text[i])

-----------------------------------------------------------------------------
(* datetime.strptime *)

Directives == {"%Y", "%m", "%d", "%H", "%M", "%S"}

\* the regular expression _strptime compiles for each directive, as a
\* predicate on the substring it is to match
DirectiveMatch(tok, s) ==
    LET n == Len(s)
        d(i) == IsDigit(s[i])
        v(i) == DigitVal(s[i])
    IN  CASE tok = "%Y" -> n = 4 /\ \A i \in 1..4 : d(i)
          [] tok = "%m" -> \/ n = 2 /\ d(1) /\ d(2) /\ v(1) = 1 /\ v(2) <= 2
                           \/ n = 2 /\ d(1) /\ d(2) /\ v(1) = 0 /\ v(2) >= 1
                           \/ n = 1 /\ d(1) /\ v(1) >= 1
          [] tok = "%d" -> \/ n = 2 /\ d(1) /\ d(2) /\ v(1) = 3 /\ v(2) <= 1
                           \/ n = 2 /\ d(1) /\ d(2) /\ v(1) \in {1, 2}
                           \/ n = 2 /\ d(1) /\ d(2) /\ v(1) = 0 /\ v(2) >= 1
                           \/ n = 1 /\ d(1) /\ v(1) >= 1
                           \/ n = 2 /\ IsSpace(s[1]) /\ d(2) /\ v(2) >= 1
          [] tok = "%H" -> \/ n = 2 /\ d(1) /\ d(2) /\ v(1) = 2 /\ v(2) <= 3
                           \/ n = 2 /\ d(1) /\ d(2) /\ v(1) <= 1
                           \/ n = 1 /\ d(1)
          [] tok = "%M" -> \/ n = 2 /\ d(1) /\ d(2) /\ v(1) <= 5
                           \/ n = 1 /\ d(1)
          [] tok = "%S" -> \/ n = 2 /\ d(1) /\ d(2) /\ v(1) = 6 /\ v(2) <= 1
                           \/ n = 2 /\ d(1) /\ d(2) /\ v(1) <= 5
                           \/ n = 1 /\ d(1)

DirectiveWidths(tok) == IF tok = "%Y" THEN {4} ELSE {1, 2}

\* the ways text[i..] matches format tokens fmt[j..] to the end of the text:
\* a set of functions directive -> value.  A blank of the format matches \s+,
\* any other literal matches itself.  The separators make the match unique.
RECURSIVE MatchFrom(_, _, _, _)
MatchFrom(text, i, fmt, j) ==
    IF j > Len(fmt)
    THEN IF i > Len(text) THEN { [k \in {} |-> 0] } ELSE {}
    ELSE LET tok == fmt[j] IN
         IF tok \in Directives
         THEN UNION { { [k \in DOMAIN a \cup {tok} |->
                            IF k = tok THEN IntOf(SubSeq(text, i, i + w - 1)) ELSE a[k]]
                        : a \in MatchFrom(text, i + w, fmt, j + 1) }
                      : w \in { x \in DirectiveWidths(tok) :
                                  /\ i + x - 1 <= Len(text)
                                  /\ DirectiveMatch(tok, SubSeq(text, i, i + x - 1)) } }
         ELSE IF tok = " "
         THEN UNION { MatchFrom(text, i + w, fmt, j + 1)
                      : w \in { x \in 1..(Len(text) - i + 1) :
                                  \A k \in i..(i + x - 1) : IsSpace(text[k]) } }
         ELSE IF i <= Len(text) /\ text[i] = tok
              THEN MatchFrom(text, i + 1, fmt, j + 1)
              ELSE {}

IsLeap(y) == (y % 4 = 0 /\ y % 100 # 0) \/ y % 400 = 0

DaysInMonth(y, m) ==
    IF m = 2 THEN (IF IsLeap(y) THEN 29 ELSE 28)
    ELSE IF m \in {4, 6, 9, 11} THEN 30 ELSE 31

\* datetime.strptime(text, fmt): the datetime, or << >> where Python raises
\* ValueError (no match, unconverted data, or a field out of range)
strptime(text, fmt) ==
    With(MatchFrom(text, 1, fmt, 1), LAMBDA ms :
    IF ms = {} THEN << >>
    ELSE With(CHOOSE x \in ms : TRUE, LAMBDA a :
         LET f(k, dflt) == IF k \in DOMAIN a THEN a[k] ELSE dflt
             Y == f("%Y", 1900)
             m == f("%m", 1)
             d == f("%d", 1)
             H == f("%H", 0)
             M == f("%M", 0)
             S == f("%S", 0)
         IN  IF /\ Y >= 1
                /\ m \in 1..12
                /\ d \in 1..DaysInMonth(Y, m)
                /\ H <= 23 /\ M <= 59 /\ S <= 59
             THEN <<Y, m, d, H, M, S>>
             ELSE << >>))

FMT_ISO_HM == <<"%Y","-","%m","-","%d"," ","%H",":","%M">>
FMT_ISO_HMS == <<"%Y","-","%m","-","%d"," ","%H",":","%M",":","%S">>
FMT_DOT_HM == <<"%d",".","%m",".","%Y"," ","%H",":","%M">>
FMT_DOT_HMS == <<"%d",".","%m",".","%Y"," ","%H",":","%M",":","%S">>
FMT_DOT_DATE == <<"%d",".","%m",".","%Y">>
FMT_ISO_DATE == <<"%Y","-","%m","-","%d">>

\* the first format of fmts, from index i on, that parses text; << >> if none
RECURSIVE FirstParse(_, _, _)
FirstParse(text, fmts, i) ==
    IF i > Len(fmts) THEN << >>
    ELSE With(strptime(text, fmts[i]), LAMBDA dt :
         IF dt # << >> THEN dt ELSE FirstParse(text, fmts, i + 1))

\* Variant of _parse_dt: the first format only
_parse_dt_first_format(text) ==
    FirstParse(Strip(text), <<FMT_ISO_HM>>, 1)

\* _parse_dt: the datetime with tzinfo=TZ, or << >> for None
_parse_dt(text) ==
    FirstParse(Strip(text), <<FMT_ISO_HM, FMT_ISO_HMS, FMT_DOT_HM, FMT_DOT_HMS>>, 1)

\* _parse_dt on every text of Texts, computed once
ParsedDt == [t \in Texts |-> _parse_dt(t)]

\* date.isoformat()
DateIsoformat(dt) ==
    Pad(dt[1], 4) \o <<"-">> \o Pad(dt[2], 2) \o <<"-">> \o Pad(dt[3], 2)

\* _parse_birth_date: the ISO string of the date, or << >> for None
_parse_birth_date(text) ==
    With(FirstParse(Strip(text), <<FMT_DOT_DATE, FMT_ISO_DATE>>, 1), LAMBDA dt :
    IF dt = << >> THEN << >> ELSE DateIsoformat(dt))

\* _parse_birth_date on every text of Texts, computed once
ParsedBirthDate == [t \in Texts |-> _parse_birth_date(t)]

\* datetime.isoformat() of a datetime in TZ (Asia/Yakutsk, UTC+09:00, no DST)
DatetimeIsoformat(dt) ==
    DateIsoformat(dt) \o <<"T">> \o Pad(dt[4], 2) \o <<":">> \o Pad(dt[5], 2)
        \o <<":">> \o Pad(dt[6], 2) \o <<"+","0","9",":","0","0">>

\* PostgreSQL's input conversion of an ISO string with offset +09:00 to
\* TIMESTAMPTZ, the instant kept as its fields at UTC+09:00
TimestamptzIn(s) ==
    <<IntOf(SubSeq(s, 1, 4)), IntOf(SubSeq(s, 6, 7)), IntOf(SubSeq(s, 9, 10)),
      IntOf(SubSeq(s, 12, 13)), IntOf(SubSeq(s, 15, 16)), IntOf(SubSeq(s, 18, 19))>>

\* dt1 < dt2 for two datetimes with the same tzinfo
RECURSIVE DtLessFrom(_, _, _)
DtLessFrom(a, b, i) ==
    IF i > 6 THEN FALSE
    ELSE IF a[i] # b[i] THEN a[i] < b[i]
    ELSE DtLessFrom(a, b, i + 1)

DtLess(a, b) == DtLessFrom(a, b, 1)

-----------------------------------------------------------------------------
(* db.py: the two tables and the functions over them *)

(* A nullable column holds {} for NULL and {v} for the value v.  Columns the
   program writes but never reads back are left out: appointments.id,
   appointments.updated_at, telegram_identities.created_at. *)
NULL == {}

\* SQL equality of two nullable values: never true of a NULL
SqlEq(a, b) == a # NULL /\ b # NULL /\ a = b

\* CONSTRAINT telegram_identities_one_identity
telegram_identities_one_identity(row) ==
    \/ row.patient_id # NULL /\ row.user_id = NULL
    \/ row.patient_id = NULL /\ row.user_id # NULL

\* get_identity: the row of tg_id, or None
get_identity(ti, tg_id) ==
    LET rows == { r \in ti : r.tg_id = tg_id } IN
    IF rows = {} THEN None ELSE CHOOSE r \in rows : TRUE

\* Variant of IdentityUpsert: a plain INSERT into a table without the primary
\* key on tg_id
IdentityInsertOnly(ti, tg_id, patient_id, telegram_username, now) ==
    [raised |-> FALSE,
     table |-> ti \cup { [tg_id |-> tg_id, patient_id |-> {patient_id}, user_id |-> NULL,
                           telegram_username |-> telegram_username, verified_at |-> {now}] }]

\* INSERT INTO telegram_identities ... ON CONFLICT (tg_id) DO UPDATE SET ...
\* The primary key on tg_id is the arbiter; the CHECK constraint applies to
\* the row that is inserted or results from the update.
IdentityUpsert(ti, tg_id, patient_id, telegram_username, now) ==
    LET conflict == { r \in ti : r.tg_id = tg_id }
        row == [tg_id |-> tg_id, patient_id |-> {patient_id}, user_id |-> NULL,
                telegram_username |-> telegram_username, verified_at |-> {now}]
        written == IF conflict = {} THEN row
                   ELSE [(CHOOSE r \in conflict : TRUE) EXCEPT
                            !.patient_id = row.patient_id,
                            !.user_id = NULL,
                            !.telegram_username = row.telegram_username,
                            !.verified_at = {now}]
    IN  IF telegram_identities_one_identity(written)
        THEN [raised |-> FALSE, table |-> (ti \ conflict) \cup {written}]
        ELSE [raised |-> TRUE, table |-> ti]

\* Variant of link_patient_by_passport_and_birthdate: ON CONFLICT (tg_id) DO
\* NOTHING, an earlier binding of the chat user stays
link_patient_keep_binding(ti, tg_id, telegram_username, passport, birth_date_iso, now) ==
    LET pp == Strip(passport)
        found == { p \in patients : p.passport = pp /\ p.birth_date = birth_date_iso }
    IN  IF found = {}
        THEN [raised |-> FALSE, result |-> None, table |-> ti]
        ELSE LET patient == CHOOSE p \in found : TRUE IN
             [raised |-> FALSE, result |-> [id |-> patient.id, fio |-> patient.fio],
              table |-> IF \E r \in ti : r.tg_id = tg_id THEN ti
                        ELSE IdentityUpsert(ti, tg_id, patient.id, telegram_username, now).table]

\* Variant of link_patient_by_passport_and_birthdate: a pair that matches no
\* patient deletes the binding of the chat user
link_patient_unlink_not_found(ti, tg_id, telegram_username, passport, birth_date_iso, now) ==
    LET pp == Strip(passport)
        found == { p \in patients : p.passport = pp /\ p.birth_date = birth_date_iso }
    IN  IF found = {}
        THEN [raised |-> FALSE, result |-> None, table |-> { r \in ti : r.tg_id # tg_id }]
        ELSE LET patient == CHOOSE p \in found : TRUE IN
             With(IdentityUpsert(ti, tg_id, patient.id, telegram_username, now), LAMBDA up :
             [raised |-> up.raised, result |-> [id |-> patient.id, fio |-> patient.fio],
              table |-> up.table])

\* link_patient_by_passport_and_birthdate: result is the patient (id, fio) or None
link_patient_by_passport_and_birthdate(ti, tg_id, telegram_username, passport, birth_date_iso, now) ==
    LET pp == Strip(passport)
        found == { p \in patients : p.passport = pp /\ p.birth_date = birth_date_iso }
    IN  IF found = {}
        THEN [raised |-> FALSE, result |-> None, table |-> ti]
        ELSE LET patient == CHOOSE p \in found : TRUE IN
             With(IdentityUpsert(ti, tg_id, patient.id, telegram_username, now), LAMBDA up :
             [raised |-> up.raised, result |-> [id |-> patient.id, fio |-> patient.fio],
              table |-> up.table])

\* Variant of upsert_appointment_for_patient: a plain INSERT into a table
\* without the unique index on patient_id
appointment_insert_only(ap, patient_id, tg_id, fio, appointment_iso) ==
    IF \E r \in ap : r.tg_id = tg_id /\ ~SqlEq(r.patient_id, {patient_id})
    THEN [raised |-> TRUE, table |-> ap]
    ELSE [raised |-> FALSE,
          table |-> ap \cup { [patient_id |-> {patient_id}, tg_id |-> tg_id, fio |-> fio,
                                appointment |-> TimestamptzIn(appointment_iso),
                                created_by_tg_id |-> {tg_id}] }]

\* Variant of upsert_appointment_for_patient: the row is keyed by tg_id and
\* carries no patient_id (INSERT ... ON CONFLICT (tg_id) DO UPDATE)
upsert_appointment_by_tg_id(ap, patient_id, tg_id, fio, appointment_iso) ==
    LET conflict == { r \in ap : r.tg_id = tg_id }
        row == [patient_id |-> NULL, tg_id |-> tg_id, fio |-> fio,
                appointment |-> TimestamptzIn(appointment_iso), created_by_tg_id |-> NULL]
        written == IF conflict = {} THEN row
                   ELSE [(CHOOSE r \in conflict : TRUE) EXCEPT
                            !.fio = row.fio, !.appointment = row.appointment]
    IN  [raised |-> FALSE, table |-> (ap \ conflict) \cup {written}]

\* upsert_appointment_for_patient.
\* INSERT ... ON CONFLICT (patient_id) DO UPDATE: the unique index on patient_id
\* is the arbiter; the UNIQUE constraint on tg_id (CREATE TABLE appointments)
\* is no arbiter, so the insert, or the update of tg_id, raises UniqueViolation
\* when another row holds that tg_id, and the transaction writes nothing.
\* (A server that does not infer the partial index appointments_patient_id_uq
\* from ON CONFLICT (patient_id) refuses the statement: that outcome is the
\* failing store call of Step.)
upsert_appointment_for_patient(ap, patient_id, tg_id, fio, appointment_iso) ==
    LET conflict == { r \in ap : SqlEq(r.patient_id, {patient_id}) }
        others == ap \ conflict
        row == [patient_id |-> {patient_id}, tg_id |-> tg_id, fio |-> fio,
                appointment |-> TimestamptzIn(appointment_iso),
                created_by_tg_id |-> {tg_id}]
        written == IF conflict = {} THEN row
                   ELSE [(CHOOSE r \in conflict : TRUE) EXCEPT
                            !.tg_id = row.tg_id,
                            !.fio = row.fio,
                            !.appointment = row.appointment,
                            !.created_by_tg_id = row.created_by_tg_id]
    IN  IF \E r \in others : r.tg_id = tg_id
        THEN [raised |-> TRUE, table |-> ap]
        ELSE [raised |-> FALSE, table |-> others \cup {written}]

\* Variant of get_my_appointment: the row is looked up by its tg_id column
get_appointment_by_tg_id(ap, ti, tg_id) ==
    LET rows == { a \in ap : a.tg_id = tg_id }
    IN  IF rows = {} THEN None ELSE CHOOSE a \in rows : TRUE

\* get_my_appointment: appointments JOIN telegram_identities ON patient_id
\* WHERE ti.tg_id = tg_id LIMIT 1; the row, or None
get_my_appointment(ap, ti, tg_id) ==
    LET rows == { a \in ap : \E i \in ti : i.tg_id = tg_id /\ SqlEq(i.patient_id, a.patient_id) }
    IN  IF rows = {} THEN None ELSE CHOOSE a \in rows : TRUE

-----------------------------------------------------------------------------
(* bot.py: the handler callbacks *)

(* A callback runs on a context c = [ud, ti, ap]: the caller's user_data and
   the two tables.  It yields an effect [reply, ud, ti, ap, calls, raised]:
   the message sent (<< >> if none), the context after it, the db.py functions
   it called, and whether an exception left it.  A callback of a conversation
   yields the effect with its return value ret.
   failAt = k > 0 makes the k-th db.py call of the turn raise (get_conn fails,
   or the server refuses the statement); failAt = 0 lets the store answer. *)

Eff(reply, c, calls) ==
    [reply |-> reply, ud |-> c.ud, ti |-> c.ti, ap |-> c.ap, calls |-> calls, raised |-> FALSE]

Raise(c, calls) ==
    [reply |-> << >>, ud |-> c.ud, ti |-> c.ti, ap |-> c.ap, calls |-> calls, raised |-> TRUE]

Ret(e, ret) ==
    [ret |-> ret, reply |-> e.reply, ud |-> e.ud, ti |-> e.ti, ap |-> e.ap,
     calls |-> e.calls, raised |-> e.raised]

\* "not identity or not identity.get('patient_id')"
NotLinked(identity) ==
    \/ identity = None
    \/ identity.patient_id = NULL
    \/ identity.patient_id = {0}

\* strftime("%d.%m.%Y %H:%M")
Strftime(dt) ==
    Pad(dt[3], 2) \o <<".">> \o Pad(dt[2], 2) \o <<".">> \o Pad(dt[1], 4)
        \o <<" ">> \o Pad(dt[4], 2) \o <<":">> \o Pad(dt[5], 2)

start(c) == Eff(<<"start">>, c, << >>)

my(c, u, failAt) ==
    IF failAt = 1 THEN Raise(c, <<"get_identity">>)
    ELSE IF NotLinked(get_identity(c.ti, u))
    THEN Eff(<<"my_not_linked">>, c, <<"get_identity">>)
    ELSE IF failAt = 2 THEN Raise(c, <<"get_identity", "get_my_appointment">>)
    ELSE With(get_my_appointment(c.ap, c.ti, u), LAMBDA row :
         IF row = None
         THEN Eff(<<"my_no_appointment">>, c, <<"get_identity", "get_my_appointment">>)
         ELSE Eff(<<"my_appointment", row.fio, Strftime(row.appointment)>>, c,
                  <<"get_identity", "get_my_appointment">>))

link(c) == Ret(Eff(<<"ask_passport">>, c, << >>), ASK_PASSPORT)

book(c, u, failAt) ==
    IF failAt = 1 THEN Ret(Raise(c, <<"get_identity">>), END)
    ELSE IF NotLinked(get_identity(c.ti, u))
    THEN Ret(Eff(<<"book_not_linked">>, c, <<"get_identity">>), END)
    ELSE Ret(Eff(<<"ask_time">>, c, <<"get_identity">>), ASK_TIME)

cancel(c) ==
    Ret(Eff(<<"cancelled">>, [c EXCEPT !.ud = {}], << >>), END)

_route_button(c, u, button_text, failAt) ==
    LET cmd == BUTTON_TO_CMD[button_text] IN
    IF cmd = "book" THEN book(c, u, failAt)
    ELSE IF cmd = "my" THEN Ret(my(c, u, failAt), END)
    ELSE IF cmd = "link" THEN link(c)
    ELSE cancel(c)

\* Variant of ask_passport: the text is collected without the pattern check
ask_passport_unchecked(c, u, message_text, failAt) ==
    With(Strip(message_text), LAMBDA text :
    IF text \in DOMAIN BUTTON_TO_CMD THEN _route_button(c, u, text, failAt)
    ELSE Ret(Eff(<<"ask_bdate">>,
                 [c EXCEPT !.ud = { kv \in c.ud : kv[1] # "passport" } \cup {<<"passport", text>>}],
                 << >>),
             ASK_BDATE))

ask_passport(c, u, message_text, failAt) ==
    With(Strip(message_text), LAMBDA text :
    IF text \in DOMAIN BUTTON_TO_CMD THEN _route_button(c, u, text, failAt)
    ELSE IF ~PassportMatch(text)
    THEN Ret(Eff(<<"bad_passport">>, c, << >>), ASK_PASSPORT)
    ELSE Ret(Eff(<<"ask_bdate">>,
                 [c EXCEPT !.ud = { kv \in c.ud : kv[1] # "passport" } \cup {<<"passport", text>>}],
                 << >>),
             ASK_BDATE))

\* context.user_data.get("passport", "")
UserDataPassport(ud) ==
    IF \E kv \in ud : kv[1] = "passport"
    THEN (CHOOSE kv \in ud : kv[1] = "passport")[2]
    ELSE << >>

\* Variant of ask_bdate: context.user_data.clear() runs before the store call
ask_bdate_clear_first(c, u, message_text, now, failAt) ==
    With(Strip(message_text), LAMBDA text :
    IF text \in DOMAIN BUTTON_TO_CMD THEN _route_button(c, u, text, failAt)
    ELSE With(ParsedBirthDate[text], LAMBDA bdate_iso :
    IF bdate_iso = << >>
    THEN Ret(Eff(<<"bad_bdate">>, c, << >>), ASK_BDATE)
    ELSE IF failAt = 1
    THEN Ret(Raise([c EXCEPT !.ud = {}], <<"link_patient_by_passport_and_birthdate">>), END)
    ELSE With(link_patient_by_passport_and_birthdate(
                  c.ti, u, Username(u), UserDataPassport(c.ud), bdate_iso, now),
              LAMBDA patient :
         IF patient.result = None
         THEN Ret(Eff(<<"patient_not_found">>,
                      [c EXCEPT !.ud = {}, !.ti = patient.table],
                      <<"link_patient_by_passport_and_birthdate">>), END)
         ELSE Ret(Eff(<<"linked", patient.result.fio>>,
                      [c EXCEPT !.ud = {}, !.ti = patient.table],
                      <<"link_patient_by_passport_and_birthdate">>), END))))

ask_bdate(c, u, message_text, now, failAt) ==
    With(Strip(message_text), LAMBDA text :
    IF text \in DOMAIN BUTTON_TO_CMD THEN _route_button(c, u, text, failAt)
    ELSE With(ParsedBirthDate[text], LAMBDA bdate_iso :
    IF bdate_iso = << >>
    THEN Ret(Eff(<<"bad_bdate">>, c, << >>), ASK_BDATE)
    ELSE IF failAt = 1
    THEN Ret(Raise(c, <<"link_patient_by_passport_and_birthdate">>), END)
    ELSE With(link_patient_by_passport_and_birthdate(
                  c.ti, u, Username(u), UserDataPassport(c.ud), bdate_iso, now),
              LAMBDA patient :
         IF patient.raised
         THEN Ret(Raise(c, <<"link_patient_by_passport_and_birthdate">>), END)
         ELSE IF patient.result = None
         THEN Ret(Eff(<<"patient_not_found">>,
                      [c EXCEPT !.ud = {}, !.ti = patient.table],
                      <<"link_patient_by_passport_and_birthdate">>), END)
         ELSE Ret(Eff(<<"linked", patient.result.fio>>,
                      [c EXCEPT !.ud = {}, !.ti = patient.table],
                      <<"link_patient_by_passport_and_birthdate">>), END))))

ask_time(c, u, message_text, now, failAt) ==
    With(Strip(message_text), LAMBDA text :
    IF text \in DOMAIN BUTTON_TO_CMD THEN _route_button(c, u, text, failAt)
    ELSE With(ParsedDt[text], LAMBDA dt :
    IF dt = << >>
    THEN Ret(Eff(<<"bad_datetime">>, c, << >>), ASK_TIME)
    ELSE IF DtLess(dt, now)
    THEN Ret(Eff(<<"time_in_past">>, c, << >>), ASK_TIME)
    ELSE IF failAt = 1 THEN Ret(Raise(c, <<"get_identity">>), END)
    ELSE With(get_identity(c.ti, u), LAMBDA identity :
    IF NotLinked(identity)
    THEN Ret(Eff(<<"lost_link">>, c, <<"get_identity">>), END)
    ELSE IF failAt = 2
    THEN Ret(Raise(c, <<"get_identity", "upsert_appointment_for_patient">>), END)
    ELSE With(CHOOSE p \in identity.patient_id : TRUE, LAMBDA patient_id :
         With(upsert_appointment_for_patient(
                  c.ap, patient_id, u, <<"PATIENT#", patient_id>>, DatetimeIsoformat(dt)),
              LAMBDA up :
         IF up.raised
         THEN Ret(Raise(c, <<"get_identity", "upsert_appointment_for_patient">>), END)
         ELSE Ret(Eff(<<"booked", Strftime(dt)>>,
                      [c EXCEPT !.ud = {}, !.ap = up.table],
                      <<"get_identity", "upsert_appointment_for_patient">>), END))))))

menu_buttons(c, u, message_text, failAt) ==
    With(Strip(message_text), LAMBDA text :
    IF text \in DOMAIN BUTTON_TO_CMD THEN _route_button(c, u, text, failAt)
    ELSE Ret(Eff(<< >>, c, << >>), END))

-----------------------------------------------------------------------------
(* telegram.ext: ConversationHandler and Application, as main() sets them up *)

\* states= of conv_link and of conv_book: state -> callback of its
\* MessageHandler(filters.TEXT & ~filters.COMMAND, ...)
LinkStates == [s \in {ASK_PASSPORT, ASK_BDATE} |->
                  IF s = ASK_PASSPORT THEN "ask_passport" ELSE "ask_bdate"]

BookStates == [s \in {ASK_TIME} |-> "ask_time"]

\* ConversationHandler.check_update: the callback chosen for the update, "" if
\* the handler does not take it.  Without a state only the entry point is
\* tried (allow_reentry is off); with a state the handlers of that state, then
\* the fallback CommandHandler("cancel", cancel).
ConvCheck(conv, entry, states, u, upd) ==
    IF u \notin DOMAIN conv
    THEN IF IsCommand(upd, entry) THEN entry ELSE ""
    ELSE IF conv[u] \in DOMAIN states /\ IsText(upd) THEN states[conv[u]]
    ELSE IF IsCommand(upd, "cancel") THEN "cancel"
    ELSE ""

\* ConversationHandler._update_state: END deletes the key, any other value is
\* stored (a value outside states= only draws a warning)
_update_state(conv, u, new_state) ==
    IF new_state = END
    THEN [k \in DOMAIN conv \ {u} |-> conv[k]]
    ELSE [k \in DOMAIN conv \cup {u} |-> IF k = u THEN new_state ELSE conv[k]]

\* the callback named cb run on context c
Call(cb, c, u, upd, now, failAt) ==
    CASE cb = "link" -> link(c)
      [] cb = "book" -> book(c, u, failAt)
      [] cb = "cancel" -> cancel(c)
      [] cb = "ask_passport" -> ask_passport(c, u, upd.text, failAt)
      [] cb = "ask_bdate" -> ask_bdate(c, u, upd.text, now, failAt)
      [] cb = "ask_time" -> ask_time(c, u, upd.text, now, failAt)

\* filters.Regex(btn_pattern): the text is exactly one of the four labels
BtnPattern(upd) == IsText(upd) /\ upd.text \in DOMAIN BUTTON_TO_CMD

\* Application.process_update over the handlers of group 0 in the order main()
\* adds them: the first handler whose check_update accepts the update handles
\* it, and no other handler sees it
Route(cl, cb, u, upd) ==
    IF IsCommand(upd, "start") THEN [handler |-> "start", callback |-> "start"]
    ELSE IF IsCommand(upd, "my") THEN [handler |-> "my", callback |-> "my"]
    ELSE With(ConvCheck(cl, "link", LinkStates, u, upd), LAMBDA link_cb :
    IF link_cb # "" THEN [handler |-> "conv_link", callback |-> link_cb]
    ELSE With(ConvCheck(cb, "book", BookStates, u, upd), LAMBDA book_cb :
    IF book_cb # "" THEN [handler |-> "conv_book", callback |-> book_cb]
    ELSE IF IsCommand(upd, "cancel") THEN [handler |-> "cancel", callback |-> "cancel"]
    ELSE IF BtnPattern(upd) THEN [handler |-> "menu_buttons", callback |-> "menu_buttons"]
    ELSE [handler |-> "", callback |-> ""]))

\* the callback of the handler that takes the update, run on context c
RunHandler(r, c, u, upd, now, failAt) ==
    CASE r.handler = "start" -> Ret(start(c), END)
      [] r.handler = "my" -> Ret(my(c, u, failAt), END)
      [] r.handler \in {"conv_link", "conv_book", "cancel"} ->
            Call(r.callback, c, u, upd, now, failAt)
      [] r.handler = "menu_buttons" -> menu_buttons(c, u, upd.text, failAt)
      [] OTHER -> Ret(Eff(<< >>, c, << >>), END)

(* The whole turn of user u sending upd, from the state
   s = [conv_link, conv_book, user_data, telegram_identities, appointments]:
   the state after it with the record of the turn (who sent the update, the
   reply, whether the callback raised), the handler and callback that took
   the update and the db.py calls made.  A callback that raises
   leaves the conversation where it was (handle_update never reaches
   _update_state) and sends nothing: main() registers no error handler. *)
process_update(s, u, upd, now, failAt) ==
    With(Route(s.conv_link, s.conv_book, u, upd), LAMBDA r :
    With(RunHandler(r, [ud |-> s.user_data[u], ti |-> s.telegram_identities,
                        ap |-> s.appointments], u, upd, now, failAt),
         LAMBDA e :
    [conv_link |-> IF r.handler = "conv_link" /\ ~e.raised
                   THEN _update_state(s.conv_link, u, e.ret) ELSE s.conv_link,
     conv_book |-> IF r.handler = "conv_book" /\ ~e.raised
                   THEN _update_state(s.conv_book, u, e.ret) ELSE s.conv_book,
     user_data |-> [s.user_data EXCEPT ![u] = e.ud],
     telegram_identities |-> e.ti,
     appointments |-> e.ap,
     turn |-> [user |-> u, reply |-> e.reply, raised |-> e.raised],
     handler |-> r.handler,
     callback |-> r.callback,
     calls |-> e.calls]))

-----------------------------------------------------------------------------
(* The state machine *)

State ==
    [conv_link |-> conv_link, conv_book |-> conv_book, user_data |-> user_data,
     telegram_identities |-> telegram_identities, appointments |-> appointments]

\* the db.py calls of a turn that may raise: none (0), or the k-th of the
\* calls the turn n0 makes when the store answers
FailPoints(n0) == 0..Len(n0.calls)

(* After init_db() and before the first update: no conversation, empty
   user_data.  The tables are shared with the main project and outlive the
   bot process: user 101 has no row in telegram_identities, or a row that
   binds a staff user (user_id set, patient_id NULL); user 102 is bound to
   patient 7; appointments holds a row that chat user 103 booked before the
   patient_id migration. *)
Init ==
    /\ conv_link = [k \in {} |-> END]
    /\ conv_book = [k \in {} |-> END]
    /\ user_data = [u \in Users |-> {}]
    /\ \E staff \in SUBSET { [tg_id |-> 101, patient_id |-> NULL, user_id |-> {55},
                               telegram_username |-> "alice", verified_at |-> NULL] } :
          telegram_identities = staff \cup
              { [tg_id |-> 102, patient_id |-> {7}, user_id |-> NULL,
                 telegram_username |-> "bob", verified_at |-> {<<2026, 2, 20, 9, 0, 0>>}] }
    /\ appointments =
          { [patient_id |-> NULL, tg_id |-> 103, fio |-> <<"Sidorov S.S.">>,
             appointment |-> <<2026, 2, 20, 10, 0, 0>>, created_by_tg_id |-> NULL] }
    /\ clock = 0
    /\ turn = [user |-> 0, reply |-> << >>, raised |-> FALSE]
    /\ parse_text = << >>
    /\ parsed = {}

\* the updates of user u that the handler named h takes in this state
Taken(h, u) ==
    { upd \in UpdatesOf(u) : Route(conv_link, conv_book, u, upd).handler = h }

\* the variables after the turn n
Commit(n) ==
    /\ conv_link' = n.conv_link
    /\ conv_book' = n.conv_book
    /\ user_data' = n.user_data
    /\ telegram_identities' = n.telegram_identities
    /\ appointments' = n.appointments
    /\ turn' = n.turn
    /\ UNCHANGED <<clock, parse_text, parsed>>

\* user u sends upd; the store answers every call of the turn, or one of its
\* calls raises
Step(u, upd) ==
    \E n0 \in { process_update(State, u, upd, Now, 0) } :
        \E f \in FailPoints(n0) :
            \E n \in { IF f = 0 THEN n0 ELSE process_update(State, u, upd, Now, f) } :
                Commit(n)

\* CommandHandler("start", start)
StartCommand ==
    \E u \in Users : \E upd \in Taken("start", u) : Step(u, upd)

\* CommandHandler("my", my)
MyCommand ==
    \E u \in Users : \E upd \in Taken("my", u) : Step(u, upd)

\* conv_link takes the update: its entry point, a state handler or its fallback
LinkConversation ==
    \E u \in Users : \E upd \in Taken("conv_link", u) : Step(u, upd)

\* conv_book takes the update
BookConversation ==
    \E u \in Users : \E upd \in Taken("conv_book", u) : Step(u, upd)

\* CommandHandler("cancel", cancel), outside any conversation
CancelCommand ==
    \E u \in Users : \E upd \in Taken("cancel", u) : Step(u, upd)

\* MessageHandler(filters.Regex(btn_pattern), menu_buttons)
MenuButtons ==
    \E u \in Users : \E upd \in Taken("menu_buttons", u) : Step(u, upd)

\* no handler takes the update: it is dropped without a reply
Unhandled ==
    \E u \in Users : \E upd \in Taken("", u) : Step(u, upd)

\* time passes
Tick ==
    /\ clock < MaxClock
    /\ clock' = clock + 1
    /\ UNCHANGED <<conv_link, conv_book, user_data, telegram_identities, appointments, turn,
                   parse_text, parsed>>

Next ==
    \/ StartCommand
    \/ MyCommand
    \/ LinkConversation
    \/ BookConversation
    \/ CancelCommand
    \/ MenuButtons
    \/ Unhandled
    \/ Tick

Spec == Init /\ [][Next]_vars

-----------------------------------------------------------------------------
(* _parse_dt on its own: one call on a text drawn from ParseTexts *)

\* date parts: the two dates of the literals, a month without its zero, a day
\* the month does not have, a separator no format has
ParseDates ==
    { SubSeq(TXT_DT_ISO_HM, 1, 10), SubSeq(TXT_DT_DOT_HM, 1, 10),
      <<"2","0","2","6","-","2","-","2","5">>,
      <<"2","0","2","6","-","0","2","-","3","0">>,
      <<"2","0","2","6","/","0","2","/","2","5">> }

\* what stands between date and time
ParseGaps == { <<" ">>, <<" "," ">>, <<"T">>, << >> }

\* time parts: the two times of the literals, a second, an hour and a
\* separator out of range, an hour without its zero, no time
ParseTimes ==
    { SubSeq(TXT_DT_ISO_HMS, 12, 16), SubSeq(TXT_DT_ISO_HMS, 12, 19),
      <<"1","4",":","3","0",":","6","0">>,
      <<"2","4",":","0","0">>,
      <<"1","4",".","3","0">>,
      <<"9",":","0","5">>,
      << >> }

\* blanks around the text
ParseBlanks == { << >>, <<" ">> }

ParseTexts ==
    { a \o d \o g \o t \o b :
        a \in ParseBlanks, d \in ParseDates, g \in ParseGaps, t \in ParseTimes, b \in ParseBlanks }
    \cup { TXT_NOT_A_DATE, TXT_PASSPORT_7, BTN_BOOK }

ParseInit ==
    /\ conv_link = [k \in {} |-> END]
    /\ conv_book = [k \in {} |-> END]
    /\ user_data = [u \in Users |-> {}]
    /\ telegram_identities = {}
    /\ appointments = {}
    /\ clock = 0
    /\ turn = [user |-> 0, reply |-> << >>, raised |-> FALSE]
    /\ parse_text \in ParseTexts
    /\ parsed = {}

\* the call returns
Parse ==
    /\ parsed = {}
    /\ parsed' = { _parse_dt(parse_text) }
    /\ UNCHANGED <<conv_link, conv_book, user_data, telegram_identities, appointments, clock,
                   turn, parse_text>>

ParseNext == Parse

ParseSpec == ParseInit /\ [][ParseNext]_vars

-----------------------------------------------------------------------------
(* Properties of the stores *)

\* C1: in every reachable state there is at most one appointments row for each
\* non-null patient_id, whoever booked and in whatever order
C1_OneRowPerPatient ==
    \A a, b \in appointments :
        (a.patient_id # NULL /\ a.patient_id = b.patient_id) => a = b

\* both chat users are bound to patient 7, user 101 has just booked, and the
\* row of patient 7 is the one user 101 wrote
C1_Witness ==
    /\ turn.user = 101
    /\ Len(turn.reply) > 0 /\ turn.reply[1] = "booked"
    /\ \A u \in Users : \E r \in telegram_identities : r.tg_id = u /\ r.patient_id = {7}
    /\ \E a \in appointments : a.patient_id = {7} /\ a.tg_id = 101

\* C2: in every reachable state of the stores, a chat user bound to a patient
\* who books an instant that is not in the past succeeds, get_my_appointment
\* then returns that instant, and booking a second instant replaces the first
\* with one row for the patient
C2_BookingSucceeds ==
    \A u \in Users :
        ~NotLinked(get_identity(telegram_identities, u)) =>
            \A t1, t2 \in { t \in Texts : ParsedDt[t] # << >> /\ ~DtLess(ParsedDt[t], Now) } :
                LET e1 == ask_time([ud |-> user_data[u], ti |-> telegram_identities,
                                    ap |-> appointments], u, t1, Now, 0)
                    e2 == ask_time([ud |-> e1.ud, ti |-> e1.ti, ap |-> e1.ap], u, t2, Now, 0)
                    row1 == get_my_appointment(e1.ap, e1.ti, u)
                    row2 == get_my_appointment(e2.ap, e2.ti, u)
                IN  /\ ~e1.raised
                    /\ row1 # None /\ row1.appointment = ParsedDt[t1]
                    /\ ~e2.raised
                    /\ row2 # None /\ row2.appointment = ParsedDt[t2]
                    /\ Cardinality({ a \in e2.ap : a.patient_id = row2.patient_id }) = 1

\* C3: for every patient, link with the patient's passport and birth date
\* followed by get_identity gives a binding to that patient in place of any
\* earlier row of the chat user, and linking again with the same inputs keeps
\* the binding and changes verified_at only; ask_bdate links the patient of the
\* collected passport and the birth date it parses
C3_LinkBinds ==
    /\ \A u \in Users : \A p \in patients :
          LET later == [Now EXCEPT ![1] = Now[1] + 1]
              r1 == link_patient_by_passport_and_birthdate(
                        telegram_identities, u, Username(u), p.passport, p.birth_date, Now)
              i1 == get_identity(r1.table, u)
              r2 == link_patient_by_passport_and_birthdate(
                        r1.table, u, Username(u), p.passport, p.birth_date, later)
              i2 == get_identity(r2.table, u)
          IN  /\ ~r1.raised /\ r1.result # None /\ r1.result.id = p.id
              /\ i1 # None /\ i1.patient_id = {p.id}
              /\ { r \in r1.table : r.tg_id = u } = {i1}
              /\ { r \in r1.table : r.tg_id # u } = { r \in telegram_identities : r.tg_id # u }
              /\ ~r2.raised /\ r2.result = r1.result
              /\ i2 = [i1 EXCEPT !.verified_at = {later}]
              /\ r2.table \ {i2} = r1.table \ {i1}
    /\ \A u \in DOMAIN conv_link : \A t \in Texts \ DOMAIN BUTTON_TO_CMD : \A p \in patients :
          ( /\ conv_link[u] = ASK_BDATE
            /\ UserDataPassport(user_data[u]) = p.passport
            /\ ParsedBirthDate[t] = p.birth_date ) =>
              LET n == process_update(State, u, [text |-> t], Now, 0)
                  i == get_identity(n.telegram_identities, u)
              IN  /\ n.turn.reply = <<"linked", p.fio>>
                  /\ i # None /\ i.patient_id = {p.id}

\* user 101, who booked while bound to patient 7, has just linked to patient 8
C3_Witness ==
    /\ turn.user = 101
    /\ turn.reply = <<"linked", "Petrov P.P.">>
    /\ \E r \in telegram_identities : r.tg_id = 101 /\ r.patient_id = {8}
    /\ \E a \in appointments : a.patient_id = {7} /\ a.tg_id = 101

\* C4: for every passport and birth date that match no patient, link returns
\* None and leaves telegram_identities as it was, for a chat user with a
\* binding too; ask_bdate then answers that the patient was not found and
\* writes to neither table
C4_NotFoundNoWrite ==
    /\ \A u \in Users :
          \A passport \in {TXT_PASSPORT_7, TXT_PASSPORT_8, TXT_PASSPORT_BAD, << >>} :
              \A t \in Texts :
                  (/\ ParsedBirthDate[t] # << >>
                   /\ ~\E p \in patients :
                          p.passport = passport /\ p.birth_date = ParsedBirthDate[t]) =>
                      LET r == link_patient_by_passport_and_birthdate(
                                   telegram_identities, u, Username(u), passport,
                                   ParsedBirthDate[t], Now)
                      IN  /\ ~r.raised
                          /\ r.result = None
                          /\ r.table = telegram_identities
                          /\ \A v \in Users :
                                 get_identity(r.table, v) = get_identity(telegram_identities, v)
    /\ \A u \in DOMAIN conv_link : \A t \in Texts \ DOMAIN BUTTON_TO_CMD :
          ( /\ conv_link[u] = ASK_BDATE
            /\ ParsedBirthDate[t] # << >>
            /\ ~\E p \in patients : /\ p.passport = UserDataPassport(user_data[u])
                                    /\ p.birth_date = ParsedBirthDate[t] ) =>
              LET n == process_update(State, u, [text |-> t], Now, 0)
              IN  /\ n.turn.reply = <<"patient_not_found">>
                  /\ n.telegram_identities = telegram_identities
                  /\ n.appointments = appointments

\* user 101, bound to a patient, has just been told that no patient matches
C4_Witness ==
    /\ turn.user = 101
    /\ turn.reply = <<"patient_not_found">>
    /\ \E r \in telegram_identities : r.tg_id = 101 /\ r.patient_id # NULL

\* C5: in every reachable state telegram_identities holds at most one row per
\* tg_id, and every row has exactly one of patient_id and user_id set
C5_IdentityRows ==
    /\ \A a, b \in telegram_identities : a.tg_id = b.tg_id => a = b
    /\ \A r \in telegram_identities : (r.patient_id = NULL) # (r.user_id = NULL)

\* user 101 has just linked to patient 7 and each chat user has a row
C5_Witness ==
    /\ turn.user = 101
    /\ turn.reply = <<"linked", "Ivanov I.I.">>
    /\ \E r \in telegram_identities : r.tg_id = 101 /\ r.patient_id = {7} /\ r.user_id = NULL
    /\ \E r \in telegram_identities : r.tg_id = 102

-----------------------------------------------------------------------------
(* Properties of the conversations *)

\* C6: a chat user whose book conversation waits for the time sends a text
\* that parses.  An instant before now: the past-time reply, the state stays,
\* nothing is written.  An instant not before now, sent by a bound user: the
\* appointment is written and the user is in no conversation
C6_TimeInPastOrBooked ==
    \A u \in DOMAIN conv_book : \A t \in Texts :
        (conv_book[u] = ASK_TIME /\ ParsedDt[t] # << >>) =>
            LET n == process_update(State, u, [text |-> t], Now, 0)
                row == get_my_appointment(n.appointments, n.telegram_identities, u)
            IN  IF DtLess(ParsedDt[t], Now)
                THEN /\ n.turn.reply = <<"time_in_past">>
                     /\ n.conv_link = conv_link
                     /\ n.conv_book = conv_book
                     /\ n.user_data = user_data
                     /\ n.telegram_identities = telegram_identities
                     /\ n.appointments = appointments
                ELSE ~NotLinked(get_identity(telegram_identities, u)) =>
                        /\ row # None /\ row.appointment = ParsedDt[t]
                        /\ u \notin DOMAIN n.conv_book
                        /\ u \notin DOMAIN n.conv_link

\* C7: in each awaiting state a text that fails the validation of that state
\* leaves the conversations, user_data and both tables as they are and is
\* answered with the re-prompt of that state
C7_ValidationFailureKeepsState ==
    \A u \in Users : \A t \in Texts \ DOMAIN BUTTON_TO_CMD :
        LET n == process_update(State, u, [text |-> t], Now, 0)
            bad_passport == /\ u \in DOMAIN conv_link /\ conv_link[u] = ASK_PASSPORT
                            /\ ~PassportMatch(Strip(t))
            bad_bdate == /\ u \in DOMAIN conv_link /\ conv_link[u] = ASK_BDATE
                         /\ ParsedBirthDate[t] = << >>
            bad_datetime == /\ u \in DOMAIN conv_book /\ conv_book[u] = ASK_TIME
                            /\ ParsedDt[t] = << >>
        IN  /\ (bad_passport \/ bad_bdate \/ bad_datetime) =>
                  /\ n.conv_link = conv_link
                  /\ n.conv_book = conv_book
                  /\ n.user_data = user_data
                  /\ n.telegram_identities = telegram_identities
                  /\ n.appointments = appointments
            /\ bad_passport => n.turn.reply = <<"bad_passport">>
            /\ bad_bdate => n.turn.reply = <<"bad_bdate">>
            /\ bad_datetime => n.turn.reply = <<"bad_datetime">>

\* C8: in every reachable state one /cancel of a chat user leaves that user in
\* no conversation, with empty user_data, and is answered with the
\* acknowledgement
C8_CancelReachesIdle ==
    \A u \in Users :
        LET n == process_update(State, u, [command |-> "cancel"], Now, 0) IN
        /\ u \notin DOMAIN n.conv_link
        /\ u \notin DOMAIN n.conv_book
        /\ n.user_data[u] = {}
        /\ n.turn.reply = <<"cancelled">>

\* C9: book or my, as a command or as a button, of a chat user without a
\* binding to a patient is answered with the redirect to /link, leaves the
\* conversations, user_data and both tables as they are, and makes no call of
\* get_my_appointment
C9_UnboundRedirect ==
    \A u \in Users :
        NotLinked(get_identity(telegram_identities, u)) =>
            \A upd \in { [command |-> "book"], [command |-> "my"],
                         [text |-> BTN_BOOK], [text |-> BTN_MY] } :
                LET n == process_update(State, u, upd, Now, 0) IN
                /\ n.turn.reply \in { <<"book_not_linked">>, <<"my_not_linked">> }
                /\ n.conv_link = conv_link
                /\ n.conv_book = conv_book
                /\ n.user_data = user_data
                /\ n.telegram_identities = telegram_identities
                /\ n.appointments = appointments
                /\ \A k \in 1..Len(n.calls) : n.calls[k] # "get_my_appointment"

\* C10: in every reachable state a button press and the command the button
\* maps to leave the same conversations, user_data and tables
C10_ButtonIsCommand ==
    \A u \in Users : \A b \in DOMAIN BUTTON_TO_CMD :
        LET n == process_update(State, u, [text |-> b], Now, 0)
            m == process_update(State, u, [command |-> BUTTON_TO_CMD[b]], Now, 0)
        IN  /\ n.conv_link = m.conv_link
            /\ n.conv_book = m.conv_book
            /\ n.user_data = m.user_data
            /\ n.telegram_identities = m.telegram_identities
            /\ n.appointments = m.appointments

\* C11: in every reachable state my, sent as the command or pressed as the
\* button, leaves the conversations, user_data and both tables as they are
C11_MyIsPureRead ==
    \A u \in Users : \A upd \in { [command |-> "my"], [text |-> BTN_MY] } :
        LET n == process_update(State, u, upd, Now, 0)
        IN  /\ n.conv_link = conv_link
            /\ n.conv_book = conv_book
            /\ n.user_data = user_data
            /\ n.telegram_identities = telegram_identities
            /\ n.appointments = appointments

\* C12: every turn that a handler takes is answered with a reply in the same
\* turn, whether its callback ends in a validation error, patient not found,
\* a missing binding, or an exception raised by a store call
C12_ErrorsAreAnswered ==
    \A u \in Users : \A upd \in Updates : \A f \in 0..2 :
        LET n == process_update(State, u, upd, Now, f)
        IN  n.handler # "" => n.turn.reply # << >>

\* C13: a turn in which a store call raises (the link call of ask_bdate, the
\* get_identity of book, my and ask_time, the upsert of ask_time) leaves the
\* conversations, user_data and both tables as they were before the turn
C13_StoreFailureKeepsState ==
    [][turn'.raised =>
          UNCHANGED <<conv_link, conv_book, user_data, telegram_identities, appointments>>]_vars

\* a store call of user 101 has just raised while the link conversation waits
\* for the birth date with the passport collected
C13_Witness ==
    /\ turn.user = 101
    /\ turn.raised
    /\ 101 \in DOMAIN conv_link /\ conv_link[101] = ASK_BDATE
    /\ PassportMatch(UserDataPassport(user_data[101]))

\* C14: in every reachable state get_my_appointment of a chat user is None
\* when the user has no row in telegram_identities, no patient_id, or the
\* patient has no appointment, and is otherwise the appointments row of the
\* patient the user is bound to now, whoever wrote that row
C14_ResolvesThroughBinding ==
    \A u \in Users :
        LET identity == get_identity(telegram_identities, u)
            row == get_my_appointment(appointments, telegram_identities, u)
        IN  IF \/ identity = None
               \/ identity.patient_id = NULL
               \/ ~\E a \in appointments : a.patient_id = identity.patient_id
            THEN row = None
            ELSE row \in appointments /\ row.patient_id = identity.patient_id

\* user 101, bound to patient 7, has just been shown the appointment of
\* patient 7 that user 102 wrote
C14_Witness ==
    /\ turn.user = 101
    /\ Len(turn.reply) > 0 /\ turn.reply[1] = "my_appointment"
    /\ \E r \in telegram_identities : r.tg_id = 101 /\ r.patient_id = {7}
    /\ \E a \in appointments : a.patient_id = {7} /\ a.tg_id = 102

\* C15: in every reachable state a chat user who is in neither conversation
\* has an empty user_data (no collected passport), whichever way the flow was
\* left
C15_IdleScratchEmpty ==
    \A u \in Users :
        (u \notin DOMAIN conv_link /\ u \notin DOMAIN conv_book) => user_data[u] = {}

\* C16: _parse_dt maps each of the literals "2026-02-25 14:30",
\* "2026-02-25 14:30:00" and "25.02.2026 14:30" to 2026-02-25 14:30:00 in TZ,
\* and returns None for a text that none of the four formats parses
C16_ParseLiterals ==
    \A r \in parsed :
        /\ parse_text \in {TXT_DT_ISO_HM, TXT_DT_ISO_HMS, TXT_DT_DOT_HM} =>
              r = <<2026, 2, 25, 14, 30, 0>>
        /\ (\A fmt \in {FMT_ISO_HM, FMT_ISO_HMS, FMT_DOT_HM, FMT_DOT_HMS} :
                strptime(Strip(parse_text), fmt) = << >>) => r = << >>
        /\ r # << >> => Len(r) = 6

\* the call on "25.02.2026 14:30" has returned 2026-02-25 14:30:00
C16_Witness ==
    /\ parse_text = TXT_DT_DOT_HM
    /\ parsed = { <<2026, 2, 25, 14, 30, 0>> }

\* C17: in every reachable state no chat user is at once in an awaiting state
\* of the link conversation and in ASK_TIME of the book conversation
C17_SingleConversationState ==
    \A u \in Users :
        ~ /\ u \in DOMAIN conv_link /\ conv_link[u] \in {ASK_PASSPORT, ASK_BDATE}
          /\ u \in DOMAIN conv_book /\ conv_book[u] = ASK_TIME

\* C18: in every reachable state the link conversation holds only ASK_PASSPORT
\* or ASK_BDATE and the book conversation only ASK_TIME for a chat user; so a
\* user in no awaiting state who sends /link is in ASK_PASSPORT afterwards, and
\* one bound to a patient who sends /book is in ASK_TIME afterwards
C18_OwnStatesOnly ==
    \A u \in Users :
        /\ u \in DOMAIN conv_link => conv_link[u] \in DOMAIN LinkStates
        /\ u \in DOMAIN conv_book => conv_book[u] \in DOMAIN BookStates
        /\ ( /\ ~(u \in DOMAIN conv_link /\ conv_link[u] \in DOMAIN LinkStates)
             /\ ~(u \in DOMAIN conv_book /\ conv_book[u] \in DOMAIN BookStates) ) =>
               LET l == process_update(State, u, [command |-> "link"], Now, 0)
                   b == process_update(State, u, [command |-> "book"], Now, 0)
               IN  /\ u \in DOMAIN l.conv_link /\ l.conv_link[u] = ASK_PASSPORT
                   /\ ~NotLinked(get_identity(telegram_identities, u)) =>
                          u \in DOMAIN b.conv_book /\ b.conv_book[u] = ASK_TIME

\* C19: every appointments row that a turn writes carries the patient_id the
\* chat user of the turn is bound to when the turn runs, and that user as
\* tg_id and as created_by_tg_id; a turn of a chat user without a binding
\* writes no row
C19_RowCarriesCurrentBinding ==
    [][\A row \in appointments' \ appointments :
           /\ row.tg_id = turn'.user
           /\ row.created_by_tg_id = {turn'.user}
           /\ row.patient_id # NULL
           /\ \E r \in telegram_identities : /\ r.tg_id = turn'.user
                                             /\ r.patient_id = row.patient_id]_vars

\* user 101, bound to patient 8, has just booked and the row of patient 8
\* carries user 101 as tg_id and created_by_tg_id
C19_Witness ==
    /\ turn.user = 101
    /\ Len(turn.reply) > 0 /\ turn.reply[1] = "booked"
    /\ \E r \in telegram_identities : r.tg_id = 101 /\ r.patient_id = {8}
    /\ \E a \in appointments :
          a.patient_id = {8} /\ a.tg_id = 101 /\ a.created_by_tg_id = {101}

\* C20: in every reachable state a chat user whose link conversation is in
\* ASK_BDATE has in user_data a passport of 4 digits, a blank and 6 digits; and
\* every turn that calls link_patient_by_passport_and_birthdate starts in such
\* a state
C20_PassportCollected ==
    /\ \A u \in DOMAIN conv_link :
          conv_link[u] = ASK_BDATE => PassportMatch(UserDataPassport(user_data[u]))
    /\ \A u \in Users : \A upd \in [text : Texts] :
          With(process_update(State, u, upd, Now, 0), LAMBDA n :
          (n.calls # << >> /\ n.calls[1] = "link_patient_by_passport_and_birthdate") =>
              /\ u \in DOMAIN conv_link /\ conv_link[u] = ASK_BDATE
              /\ PassportMatch(UserDataPassport(user_data[u])))

\* user 101 sent /book while the link conversation was waiting for the birth
\* date: both conversations are waiting and the passport is still collected
C20_Witness ==
    /\ 101 \in DOMAIN conv_link /\ conv_link[101] = ASK_BDATE
    /\ 101 \in DOMAIN conv_book /\ conv_book[101] = ASK_TIME
    /\ turn.user = 101
    /\ turn.reply = <<"ask_time">>
    /\ UserDataPassport(user_data[101]) = TXT_PASSPORT_8

====
